---- MODULE Spec2Model ----
(***************************************************************************)
(* State machine of the LiveAgent component                               *)
(* (src/components/LiveAgent.tsx): the React state and refs of the        *)
(* component, the asynchronous startSession invocations with their        *)
(* closures (audio contexts, session promise), the remote sessions of the *)
(* provider, and the handlers startSession, stopSession, handleSendText,  *)
(* onopen, onmessage, onerror, onclose and the unmount cleanup.           *)
(***************************************************************************)
EXTENDS Integers, Sequences, FiniteSets, TLC

\* ---------------------------------------------------------------- bounds
\* startSession invocations that get past the isActive test (each owns one
\* pair of audio contexts and issues at most one connect)
MaxStarts == 2
\* inputs the component consumes in one run: typed messages submitted plus
\* inbound provider messages handled by onmessage
MaxInputs == 1
\* largest reading of an output context's clock
MaxTime == 1
\* largest duration of a decoded audio chunk
MaxDur == 1
\* inbound messages of one call in the call specification
MaxMsgs == 3
\* samples are the multiples of 1/(32768 * SubSteps) ...
SubSteps == 4
\* ... that lie within SampleWindow steps of -1, of 0 or of 1
SampleWindow == 12
\* capture frames handled per session in the capture specification
MaxFrames == 2

\* null of a ref (useRef(null)), and "no such invocation"
Null == 0

Starts == 1..MaxStarts

\* ----------------------------------------------------------------- state
VARIABLES
  \* React state (useState)
  isActive, isConnecting, isServiceUnavailable, transcripts, lastAction,
  \* refs (useRef)
  nextStartTimeRef, audioContextsRef, sourcesRef, sessionRef,
  scriptProcessorRef, pendingMessageRef,
  currentInputTransRef, currentOutputTransRef,
  \* the component is mounted
  mounted,
  \* per startSession invocation k: position of the async function, and the
  \* objects its closure holds
  pc, inputCtx, outputCtx, clock, proc, flushScheduled,
  \* per remote session k (opened by invocation k): connection and promise
  remote, resolved,
  \* what the provider received on session k, in order
  delivered,
  \* every source.start(at) issued, in order: [ses, at, dur]
  scheduled,
  \* the typed messages handleSendText accepted, in order: the lifecycle state
  \* each was submitted in and the startSession invocation it was left for
  submitted,
  \* the number of inbound messages handled so far
  nmsgs,
  \* one sample through the PCM helpers: the Float32 sample the capture frame
  \* holds, the Int16 createBlob stores for it, and the sample decodeAudioData
  \* gives back for that Int16 (wire and heard are empty until computed)
  sample, wire, heard,
  \* per session k: what became of each capture frame handed to it, in order
  \* ("sent", or "failed" when the send threw and was logged)
  frames

reactVars == <<isActive, isConnecting, isServiceUnavailable, transcripts, lastAction>>
refVars == <<nextStartTimeRef, audioContextsRef, sourcesRef, sessionRef,
             scriptProcessorRef, pendingMessageRef,
             currentInputTransRef, currentOutputTransRef>>
envVars == <<mounted, pc, inputCtx, outputCtx, clock, proc, flushScheduled,
             remote, resolved, delivered, scheduled, submitted, nmsgs>>
\* the audio helpers' sample and the capture frames
codecVars == <<sample, wire, heard, frames>>
vars == <<reactVars, refVars, envVars, codecVars>>

\* the inputs consumed so far
InputsUsed == Len(submitted) + nmsgs

\* nothing encoded or decoded yet
NoSample == <<>>

\* audioContextsRef.current = {}
NoContexts == [input |-> Null, output |-> Null]

InitComponent ==
  /\ isActive = FALSE
  /\ isConnecting = FALSE
  /\ isServiceUnavailable = FALSE
  /\ transcripts = <<>>
  /\ lastAction = <<>>
  /\ nextStartTimeRef = 0
  /\ audioContextsRef = NoContexts
  /\ sourcesRef = {}
  /\ sessionRef = Null
  /\ scriptProcessorRef = Null
  /\ pendingMessageRef = Null
  /\ currentInputTransRef = <<>>
  /\ currentOutputTransRef = <<>>
  /\ mounted = TRUE
  /\ pc = [k \in Starts |-> "unused"]
  /\ inputCtx = [k \in Starts |-> "none"]
  /\ outputCtx = [k \in Starts |-> "none"]
  /\ clock = [k \in Starts |-> 0]
  /\ proc = [k \in Starts |-> "none"]
  /\ flushScheduled = [k \in Starts |-> FALSE]
  /\ remote = [k \in Starts |-> "none"]
  /\ resolved = [k \in Starts |-> FALSE]
  /\ delivered = [k \in Starts |-> <<>>]
  /\ scheduled = <<>>
  /\ submitted = <<>>
  /\ nmsgs = 0
  /\ wire = NoSample
  /\ heard = NoSample
  /\ frames = [k \in Starts |-> <<>>]

\* the state after construction (no sample is looked at)
Init == InitComponent /\ sample = 0

\* ------------------------------------------------------------ stopSession
\* sessionRef.current.close() inside try/catch, then sessionRef.current = null
CloseSessionRef(rem) ==
  IF sessionRef # Null THEN [rem EXCEPT ![sessionRef] = "closed"] ELSE rem

\* input.close() / output.close() of the contexts the ref holds
CloseContext(ctxs, k) ==
  IF k # Null THEN [ctxs EXCEPT ![k] = "closed"] ELSE ctxs

\* stopSession, lines 106-109: the remote session
StopRemote(rem) ==
  /\ remote' = CloseSessionRef(rem)
  /\ sessionRef' = Null

\* stopSession, lines 110-113: the capture pipeline
StopCapture ==
  /\ proc' = IF scriptProcessorRef # Null
               THEN [proc EXCEPT ![scriptProcessorRef] = "disconnected"]
               ELSE proc
  /\ scriptProcessorRef' = Null

\* stopSession, lines 114-115: the playback handles
StopPlayback == sourcesRef' = {}

\* stopSession, lines 117-123: the audio contexts
StopContexts ==
  /\ inputCtx' = CloseContext(inputCtx, audioContextsRef.input)
  /\ outputCtx' = CloseContext(outputCtx, audioContextsRef.output)
  /\ audioContextsRef' = NoContexts

\* stopSession, lines 125-129: the flags and the per-session transient state
StopState ==
  /\ isActive' = FALSE
  /\ isConnecting' = FALSE
  /\ currentInputTransRef' = <<>>
  /\ currentOutputTransRef' = <<>>
  /\ pendingMessageRef' = Null

\* a stopSession that closes the contexts and keeps the reference to them
StopSessionKeepsContextRef(rem) ==
  /\ StopRemote(rem)
  /\ StopCapture
  /\ StopPlayback
  /\ inputCtx' = CloseContext(inputCtx, audioContextsRef.input)
  /\ outputCtx' = CloseContext(outputCtx, audioContextsRef.output)
  /\ UNCHANGED audioContextsRef
  /\ StopState

\* stopSession(); rem is the provider's view of the sessions when it runs
StopSession(rem) ==
  /\ StopRemote(rem)
  /\ StopCapture
  /\ StopPlayback
  /\ StopContexts
  /\ StopState

\* what stopSession leaves alone among the variables the lifecycle handlers share
StopFrame ==
  UNCHANGED <<nextStartTimeRef, pc, clock, flushScheduled, resolved,
              delivered, scheduled, nmsgs, lastAction, codecVars>>

\* ----------------------------------------------------------- startSession
\* the invocation a new startSession gets
FreeStart == CHOOSE k \in Starts : pc[k] = "unused" /\ \A j \in Starts : j < k => pc[j] # "unused"

CanStart == \E k \in Starts : pc[k] = "unused"

\* startSession past the isActive test, up to its first await: the flags, the
\* two audio contexts and the ref to them; pend is pendingMessageRef.current
BeginSession(pend) ==
  /\ CanStart
  /\ isConnecting' = TRUE
  /\ isServiceUnavailable' = FALSE
  /\ inputCtx' = [inputCtx EXCEPT ![FreeStart] = "running"]
  /\ outputCtx' = [outputCtx EXCEPT ![FreeStart] = "running"]
  /\ audioContextsRef' = [input |-> FreeStart, output |-> FreeStart]
  /\ pc' = [pc EXCEPT ![FreeStart] = "awaitMic"]
  /\ pendingMessageRef' = pend
  /\ UNCHANGED <<isActive, nextStartTimeRef, sourcesRef, sessionRef,
                 scriptProcessorRef, currentInputTransRef,
                 currentOutputTransRef, clock, proc, flushScheduled,
                 remote, resolved, delivered, scheduled, nmsgs, lastAction,
                 codecVars>>

\* a startSession without the isActive test
StartSessionNoHangup(unavail, pend) == BeginSession(pend)

\* startSession() up to its first await; unavail is isServiceUnavailable and
\* pend is pendingMessageRef.current as the caller left them
StartSession(unavail, pend) ==
  IF isActive
  THEN /\ StopSession(remote)
       /\ StopFrame
       /\ isServiceUnavailable' = unavail
  ELSE BeginSession(pend)

\* the call button: onClick={startSession}, disabled={isConnecting}
CallToggle ==
  /\ mounted
  /\ ~isConnecting
  /\ StartSession(isServiceUnavailable, pendingMessageRef)
  /\ UNCHANGED <<transcripts, mounted, submitted>>

\* the Retry Connection button of the unavailable panel
Retry ==
  /\ mounted
  /\ isServiceUnavailable
  /\ StartSession(FALSE, pendingMessageRef)
  /\ UNCHANGED <<transcripts, mounted, submitted>>


\* ---------------------------------------------------------- handleSendText
\* a payload the provider receives: sendRealtimeInput({text}),
\* sendRealtimeInput({media}) of the j-th capture frame, or
\* sendToolResponse({functionResponses: {id, name, response: {result: 'ok'}}})
TextPayload(m) == [kind |-> "text", text |-> m, id |-> <<>>, name |-> "", result |-> ""]
MediaPayload(j) == [kind |-> "media", text |-> Null, id |-> <<j>>, name |-> "", result |-> ""]
ToolResponse(id, name) ==
  [kind |-> "toolResponse", text |-> Null, id |-> id, name |-> name, result |-> "ok"]

\* the transcript line of a typed message
TypedLine(m) == [role |-> "User", text |-> <<<<"typed", m>>>>]

\* handleSendText with textInput = the m-th typed message (blank: only
\* whitespace). The form is disabled while isConnecting; the handler keeps a
\* branch for that state, so it is modelled as callable there too.
SendText(blank) ==
  /\ mounted
  /\ InputsUsed < MaxInputs
  /\ UNCHANGED codecVars
  /\ IF blank
     THEN UNCHANGED <<reactVars, refVars, mounted, pc, inputCtx, outputCtx, clock,
                      proc, flushScheduled, remote, resolved, delivered,
                      scheduled, submitted, nmsgs>>
     ELSE LET m == Len(submitted) + 1 IN
          /\ transcripts' = Append(transcripts, TypedLine(m))
          /\ UNCHANGED mounted
          /\ IF isActive /\ sessionRef # Null
             THEN /\ delivered' = [delivered EXCEPT ![sessionRef] = Append(@, TextPayload(m))]
                  /\ submitted' = Append(submitted, [state |-> "Active", start |-> sessionRef])
                  /\ UNCHANGED <<isActive, isConnecting, isServiceUnavailable, lastAction,
                                 refVars, pc, inputCtx, outputCtx, clock, proc,
                                 flushScheduled, remote, resolved, scheduled, nmsgs>>
             ELSE IF ~isConnecting
             THEN /\ StartSession(isServiceUnavailable, m)
                  /\ submitted' = Append(submitted,
                         IF isActive THEN [state |-> "Active", start |-> Null]
                                     ELSE [state |-> "Idle", start |-> FreeStart])
             ELSE /\ pendingMessageRef' = m
                  /\ submitted' = Append(submitted,
                         [state |-> "Connecting", start |-> audioContextsRef.input])
                  /\ UNCHANGED <<isActive, isConnecting, isServiceUnavailable, lastAction,
                                 nextStartTimeRef, audioContextsRef, sourcesRef, sessionRef,
                                 scriptProcessorRef, currentInputTransRef,
                                 currentOutputTransRef, pc, inputCtx, outputCtx, clock,
                                 proc, flushScheduled, remote, resolved, delivered,
                                 scheduled, nmsgs>>

\* ------------------------------------------- startSession after its awaits
\* a catch that leaves the Connecting flag set
CatchKeepsConnecting ==
  /\ isServiceUnavailable' = TRUE
  /\ UNCHANGED isConnecting

\* catch (err) of startSession
Catch ==
  /\ isServiceUnavailable' = TRUE
  /\ isConnecting' = FALSE

\* getUserMedia resolves: ai.live.connect(...) is issued, then await sessionPromise
MicGranted(k) ==
  /\ pc[k] = "awaitMic"
  /\ remote' = [remote EXCEPT ![k] = "connecting"]
  /\ pc' = [pc EXCEPT ![k] = "awaitSession"]
  /\ UNCHANGED <<codecVars, reactVars, refVars, mounted, inputCtx, outputCtx, clock, proc,
                 flushScheduled, resolved, delivered, scheduled, submitted, nmsgs>>

\* getUserMedia (or resume) rejects: permission denied
MicDenied(k) ==
  /\ pc[k] = "awaitMic"
  /\ Catch
  /\ pc' = [pc EXCEPT ![k] = "done"]
  /\ UNCHANGED <<codecVars, isActive, transcripts, lastAction, refVars, mounted, inputCtx,
                 outputCtx, clock, proc, flushScheduled, remote, resolved,
                 delivered, scheduled, submitted, nmsgs>>

\* sessionPromise rejects: the connect failed before the session opened
ConnectRejected(k) ==
  /\ pc[k] = "awaitSession"
  /\ remote[k] = "connecting"
  /\ Catch
  /\ remote' = [remote EXCEPT ![k] = "closed"]
  /\ pc' = [pc EXCEPT ![k] = "done"]
  /\ UNCHANGED <<codecVars, isActive, transcripts, lastAction, refVars, mounted, inputCtx,
                 outputCtx, clock, proc, flushScheduled, resolved, delivered,
                 scheduled, submitted, nmsgs>>

\* ------------------------------------------------------------- callbacks
\* onopen of session k. createMediaStreamSource on a closed input context may
\* throw (throws), which ends the callback after the two setState calls.
OnOpen(k) ==
  /\ remote[k] = "connecting"
  /\ remote' = [remote EXCEPT ![k] = "open"]
  /\ isConnecting' = FALSE
  /\ isActive' = TRUE
  /\ \E throws \in (IF inputCtx[k] = "closed" THEN BOOLEAN ELSE {FALSE}) :
       IF throws
       THEN UNCHANGED <<scriptProcessorRef, proc, flushScheduled>>
       ELSE /\ scriptProcessorRef' = k
            /\ proc' = [proc EXCEPT ![k] = "connected"]
            /\ flushScheduled' = [flushScheduled EXCEPT ![k] = (pendingMessageRef # Null)]
  /\ UNCHANGED <<codecVars, isServiceUnavailable, transcripts, lastAction, nextStartTimeRef,
                 audioContextsRef, sourcesRef, sessionRef, pendingMessageRef,
                 currentInputTransRef, currentOutputTransRef, mounted, pc,
                 inputCtx, outputCtx, clock, resolved, delivered, scheduled,
                 submitted, nmsgs>>

\* sessionPromise resolves for session k: the await of startSession returns and
\* the then-callback registered by onopen sends pendingMessageRef.current
SessionResolved(k) ==
  /\ remote[k] = "open"
  /\ ~resolved[k]
  /\ pc[k] = "awaitSession"
  /\ resolved' = [resolved EXCEPT ![k] = TRUE]
  /\ pc' = [pc EXCEPT ![k] = "done"]
  /\ IF flushScheduled[k]
     THEN /\ delivered' = [delivered EXCEPT ![k] = Append(@, TextPayload(pendingMessageRef))]
          /\ pendingMessageRef' = Null
          /\ flushScheduled' = [flushScheduled EXCEPT ![k] = FALSE]
     ELSE UNCHANGED <<delivered, pendingMessageRef, flushScheduled>>
  /\ UNCHANGED <<codecVars, reactVars, nextStartTimeRef, audioContextsRef, sourcesRef, sessionRef,
                 scriptProcessorRef, currentInputTransRef, currentOutputTransRef,
                 mounted, inputCtx, outputCtx, clock, proc, remote, scheduled,
                 submitted, nmsgs>>

\* an onerror that raises the flag and tears nothing down
OnErrorNoTeardown(k) ==
  /\ remote[k] \in {"connecting", "open"}
  /\ isServiceUnavailable' = TRUE
  /\ remote' = [remote EXCEPT ![k] = "errored"]
  /\ UNCHANGED <<codecVars, isActive, isConnecting, transcripts, lastAction, refVars, mounted,
                 pc, inputCtx, outputCtx, clock, proc, flushScheduled, resolved,
                 delivered, scheduled, submitted, nmsgs>>

\* onerror of session k
OnError(k) ==
  /\ remote[k] \in {"connecting", "open"}
  /\ isServiceUnavailable' = TRUE
  /\ StopSession([remote EXCEPT ![k] = "errored"])
  /\ StopFrame
  /\ UNCHANGED <<transcripts, mounted, submitted>>

\* onclose of session k
OnClose(k) ==
  /\ remote[k] \in {"connecting", "open", "errored"}
  /\ StopSession([remote EXCEPT ![k] = "closed"])
  /\ StopFrame
  /\ UNCHANGED <<isServiceUnavailable, transcripts, mounted, submitted>>

\* useEffect cleanup: the component unmounts
Unmount ==
  /\ mounted
  /\ mounted' = FALSE
  /\ StopSession(remote)
  /\ StopFrame
  /\ UNCHANGED <<isServiceUnavailable, transcripts, submitted>>


\* --------------------------------------------------------------- onmessage
\* a scheduler that starts every chunk at the clock's reading
Latest(a, b) == b

\* Math.max
Max(a, b) == IF a >= b THEN a ELSE b

\* an interruption that keeps nextStartTime
InterruptKeepsClock(msg, next) == next

\* the interrupted part, lines 246-250: the active handles and nextStartTime
InterruptSources(msg, sources) == IF msg.interrupted THEN {} ELSE sources
InterruptClock(msg, next) == IF msg.interrupted THEN 0 ELSE next

\* the audio part of an inbound message: absent, a payload that fails to
\* decode, or PCM that decodes to a buffer of duration dur
AudioParts ==
  {[kind |-> "none", dur |-> 0], [kind |-> "bad", dur |-> 0]}
    \cup {[kind |-> "pcm", dur |-> d] : d \in 1..MaxDur}

\* msg.toolCall.functionCalls, by name (absent: the empty list)
ToolCallLists ==
  {<<>>, <<"record_lead">>, <<"schedule_repair">>, <<"other">>,
   <<"record_lead", "schedule_repair">>}

\* the inbound messages: which parts a LiveServerMessage carries
ServerMsgs ==
  [audio : AudioParts, inputTranscription : BOOLEAN, outputTranscription : BOOLEAN,
   turnComplete : BOOLEAN, interrupted : BOOLEAN, toolCall : ToolCallLists]

\* setTranscripts(prev => ...) of a transcription fragment: replace the last
\* line when it has the same role, else append
MergeLine(prev, role, text) ==
  IF Len(prev) > 0 /\ prev[Len(prev)].role = role
  THEN Append(SubSeq(prev, 1, Len(prev) - 1), [role |-> role, text |-> text])
  ELSE Append(prev, [role |-> role, text |-> text])

\* a dispatcher that records a lead for every name
ToolActionAnyName(prev, fc) == <<"Lead recorded", fc[1], fc[2]>>

\* setLastAction of one function call fc = <<message, index, name>>
ToolAction(prev, fc) ==
  IF fc[3] = "record_lead" THEN <<"Lead recorded", fc[1], fc[2]>>
  ELSE IF fc[3] = "schedule_repair" THEN <<"Repair scheduled", fc[1], fc[2]>>
  ELSE prev

RECURSIVE ToolActions(_, _, _, _)
\* the for-loop over functionCalls: lastAction after calls j..Len(names)
ToolActions(prev, n, names, j) ==
  IF j > Len(names) THEN prev
  ELSE ToolActions(ToolAction(prev, <<n, j, names[j]>>), n, names, j + 1)

\* a loop that acknowledges every call twice
ToolResponsesTwice(n, names) ==
  [j \in 1..(2 * Len(names)) |-> ToolResponse(<<n, (j + 1) \div 2>>, names[(j + 1) \div 2])]

\* the acknowledgements the loop sends, in order
ToolResponses(n, names) ==
  [j \in 1..Len(names) |-> ToolResponse(<<n, j>>, names[j])]

\* onmessage of session k for message msg; now is outputCtx.currentTime and
\* decoded tells whether decoding and scheduling the audio went through
OnMessage(k, msg, now, decoded) ==
  LET n == nmsgs + 1
      hasAudio == msg.audio.kind # "none"
      next1 == IF hasAudio THEN Max(nextStartTimeRef, now) ELSE nextStartTimeRef
      plays == hasAudio /\ decoded
      h == Len(scheduled) + 1
      next2 == IF plays THEN next1 + msg.audio.dur ELSE next1
      sources2 == IF plays THEN sourcesRef \cup {h} ELSE sourcesRef
      in1 == IF msg.inputTranscription
               THEN Append(currentInputTransRef, <<"in", n>>)
               ELSE currentInputTransRef
      lines1 == IF msg.inputTranscription
                  THEN MergeLine(transcripts, "User", in1) ELSE transcripts
      out1 == IF msg.outputTranscription
                THEN Append(currentOutputTransRef, <<"out", n>>)
                ELSE currentOutputTransRef
      lines2 == IF msg.outputTranscription
                  THEN MergeLine(lines1, "Joe", out1) ELSE lines1
  IN
  /\ remote[k] = "open"
  /\ resolved[k]
  /\ nmsgs' = n
  /\ clock' = [clock EXCEPT ![k] = IF hasAudio THEN now ELSE @]
  /\ scheduled' = IF plays
                    THEN Append(scheduled, [ses |-> k, at |-> next1, dur |-> msg.audio.dur])
                    ELSE scheduled
  /\ transcripts' = lines2
  /\ currentInputTransRef' = IF msg.turnComplete THEN <<>> ELSE in1
  /\ currentOutputTransRef' = IF msg.turnComplete THEN <<>> ELSE out1
  /\ sourcesRef' = InterruptSources(msg, sources2)
  /\ nextStartTimeRef' = InterruptClock(msg, next2)
  /\ lastAction' = ToolActions(lastAction, n, msg.toolCall, 1)
  /\ delivered' = [delivered EXCEPT ![k] = @ \o ToolResponses(n, msg.toolCall)]
  /\ UNCHANGED <<codecVars, isActive, isConnecting, isServiceUnavailable, audioContextsRef,
                 sessionRef, scriptProcessorRef, pendingMessageRef, mounted, pc,
                 inputCtx, outputCtx, proc, flushScheduled, remote, resolved, submitted>>

\* the readings outputCtx.currentTime of session k can give next
ClockReadings(k) ==
  IF outputCtx[k] = "running" THEN clock[k]..MaxTime ELSE {clock[k]}

\* a decoder that accepts every payload
DecodeAcceptsAll(k, msg) == {TRUE}

\* whether the audio of msg decodes and is scheduled: malformed data throws
\* inside the try; on a closed context the node calls may throw too
DecodeOutcomes(k, msg) ==
  IF msg.audio.kind = "pcm"
  THEN (IF outputCtx[k] = "running" THEN {TRUE} ELSE BOOLEAN)
  ELSE {FALSE}

\* source.onended of a scheduled chunk
Ended(h) ==
  /\ h \in sourcesRef
  /\ sourcesRef' = sourcesRef \ {h}
  /\ UNCHANGED <<codecVars, reactVars, nextStartTimeRef, audioContextsRef, sessionRef,
                 scriptProcessorRef, pendingMessageRef, currentInputTransRef,
                 currentOutputTransRef, mounted, pc, inputCtx, outputCtx, clock,
                 proc, flushScheduled, remote, resolved, delivered, scheduled,
                 submitted, nmsgs>>

\* ------------------------------------------------------------ specification
\* the user's controls and the unmount
UserStep ==
  \/ CallToggle
  \/ Retry
  \/ \E blank \in BOOLEAN : SendText(blank)
  \/ Unmount

\* the continuations of startSession and the provider's lifecycle callbacks
LifecycleStep ==
  \/ \E k \in Starts : MicGranted(k)
  \/ \E k \in Starts : MicDenied(k)
  \/ \E k \in Starts : ConnectRejected(k)
  \/ \E k \in Starts : OnOpen(k)
  \/ \E k \in Starts : SessionResolved(k)
  \/ \E k \in Starts : OnError(k)
  \/ \E k \in Starts : OnClose(k)

\* onmessage for a message among msgs
Inbound(msgs) ==
  \E k \in Starts : \E msg \in msgs :
    /\ InputsUsed < MaxInputs
    /\ \E now \in ClockReadings(k) : \E decoded \in DecodeOutcomes(k, msg) :
      OnMessage(k, msg, now, decoded)

Playback == \E h \in sourcesRef : Ended(h)

\* the inbound messages of the lifecycle specification: one that carries audio
\* and both transcriptions, one that ends the turn and interrupts, one tool call
NoParts ==
  [audio |-> [kind |-> "none", dur |-> 0], inputTranscription |-> FALSE,
   outputTranscription |-> FALSE, turnComplete |-> FALSE, interrupted |-> FALSE,
   toolCall |-> <<>>]

SessionMsgs ==
  { [NoParts EXCEPT !.audio = [kind |-> "pcm", dur |-> 1],
                    !.inputTranscription = TRUE, !.outputTranscription = TRUE],
    [NoParts EXCEPT !.turnComplete = TRUE, !.interrupted = TRUE],
    [NoParts EXCEPT !.toolCall = <<"record_lead">>] }

Next ==
  \/ UserStep
  \/ LifecycleStep
  \/ Inbound(SessionMsgs)
  \/ Playback

Spec == Init /\ [][Next]_vars


\* ------------------------------------------------------- derived notions
\* the lifecycle state the component shows
Idle == ~isActive /\ ~isConnecting

\* the remote sessions that are connecting or open at the provider
LiveSessions == {k \in Starts : remote[k] \in {"connecting", "open"}}

\* the connects issued so far
Connects == {k \in Starts : remote[k] # "none"}

\* what stopSession establishes
TornDown ==
  /\ sessionRef = Null
  /\ scriptProcessorRef = Null
  /\ sourcesRef = {}
  /\ audioContextsRef = NoContexts
  /\ ~isActive
  /\ ~isConnecting
  /\ currentInputTransRef = <<>>
  /\ currentOutputTransRef = <<>>
  /\ pendingMessageRef = Null

\* the variables stopSession assigns in the component
stopVars == <<sessionRef, scriptProcessorRef, proc, sourcesRef, inputCtx, outputCtx,
              audioContextsRef, isActive, isConnecting, currentInputTransRef,
              currentOutputTransRef, pendingMessageRef>>

\* a step in which startSession is called while isActive
StartWhileActive == isActive /\ (CallToggle \/ Retry \/ SendText(FALSE))

\* a step that runs stopSession
StopCall ==
  \/ StartWhileActive
  \/ Unmount
  \/ \E k \in Starts : OnError(k) \/ OnClose(k)

\* how often the typed message m reached the provider, over all sessions
RECURSIVE CountText(_, _)
CountText(seq, m) ==
  IF seq = <<>> THEN 0
  ELSE (IF Head(seq).kind = "text" /\ Head(seq).text = m THEN 1 ELSE 0)
         + CountText(Tail(seq), m)

RECURSIVE SumOver(_, _)
SumOver(S, m) ==
  IF S = {} THEN 0
  ELSE LET k == CHOOSE x \in S : TRUE
       IN CountText(delivered[k], m) + SumOver(S \ {k}, m)

Deliveries(m) == SumOver(Starts, m)

\* ------------------------------------------------------------------ C1
\* C1: startSession called while Active performs stopSession and leaves the
\* state Idle; the call creates no new invocation and issues no connect.
C1_StartWhileActiveHangsUp ==
  [][StartWhileActive => (TornDown' /\ Idle' /\ pc' = pc /\ remote' = remote)]_vars

\* the only session was opened and the call button then hung up: the component
\* is torn down and Idle, and no second invocation exists
C1_Witness ==
  /\ mounted
  /\ ~isServiceUnavailable
  /\ TornDown
  /\ remote[1] = "open"
  /\ submitted = <<>>
  /\ \A k \in Starts \ {1} : pc[k] = "unused"


\* ------------------------------------------------------------------ C2
\* C2: at most one remote session is connecting or open at any time.
C2_AtMostOneSession == Cardinality(LiveSessions) <= 1

\* ------------------------------------------------------------------ C3
\* C3: handleSendText with a non-blank message while Active hands the message
\* to the open session and leaves the state Active, starting nothing.
C3_SendTextWhileActive ==
  [][(isActive /\ SendText(FALSE)) =>
       /\ isActive'
       /\ pc' = pc
       /\ \E k \in Starts :
            /\ remote[k] = "open"
            /\ delivered'[k] = Append(delivered[k], TextPayload(Len(submitted) + 1))]_vars

\* ------------------------------------------------------------------ C4
\* C4: a single typed message submitted while Idle or Connecting is not sent
\* before the onopen of the session it waits for, is never sent twice, and once
\* the component is Active on that session and the session promise has resolved
\* it has reached that session exactly once and the pending slot is empty.
C4_PendingTextDeliveredOnce ==
  (Len(submitted) = 1 /\ submitted[1].state \in {"Idle", "Connecting"}) =>
    /\ Deliveries(1) <= 1
    /\ \A j \in Starts : remote[j] \in {"none", "connecting"} => delivered[j] = <<>>
    /\ \A k \in Starts :
         (/\ k = submitted[1].start
          /\ mounted /\ isActive /\ scriptProcessorRef = k
          /\ remote[k] = "open" /\ resolved[k])
           => (CountText(delivered[k], 1) = 1 /\ pendingMessageRef = Null)

\* ------------------------------------------------------------------ C5
\* C5: once stopSession has returned, no remote session of the component is open.
C5_StopClosesRemote ==
  [][StopCall => \A k \in Starts : remote'[k] # "open"]_vars

\* ------------------------------------------------------------------ C6
\* C6: once stopSession has returned, both fragment buffers are empty, the
\* pending slot is empty, no playback handle is active and nextStartTime is 0.
C6_StopResetsTransientState ==
  [][StopCall =>
       /\ currentInputTransRef' = <<>>
       /\ currentOutputTransRef' = <<>>
       /\ pendingMessageRef' = Null
       /\ sourcesRef' = {}
       /\ nextStartTimeRef' = 0]_vars

\* ------------------------------------------------------------------ C7
\* C7: stopSession can run in every state (the unmount cleanup is always
\* enabled while mounted), it leaves the component torn down and Idle, and run
\* on a torn-down component it changes nothing of what it assigns.
C7_StopIdempotent ==
  /\ [](mounted => ENABLED Unmount)
  /\ [][StopCall => (TornDown' /\ Idle' /\ (TornDown => UNCHANGED stopVars))]_vars

\* onerror and then onclose of the only session: stopSession ran twice
C7_Witness ==
  /\ isServiceUnavailable
  /\ TornDown
  /\ submitted = <<>>
  /\ remote[1] = "closed"
  /\ pc[1] = "awaitSession"
  /\ \A k \in Starts \ {1} : pc[k] = "unused"

\* ------------------------------------------------------------------ C8
\* the contexts the ref held before a step are closed after it
ContextsReleased ==
  /\ audioContextsRef.input # Null => inputCtx'[audioContextsRef.input] = "closed"
  /\ audioContextsRef.output # Null => outputCtx'[audioContextsRef.output] = "closed"

\* C8 as stated: onerror and onclose alike set the service-unavailable flag and
\* perform the teardown of stopSession.
C8_ErrorAndCloseAlike ==
  [][(\E k \in Starts : OnError(k) \/ OnClose(k)) =>
       (isServiceUnavailable' /\ TornDown' /\ ContextsReleased)]_vars

\* C8 amended: onerror sets the service-unavailable flag and performs the
\* teardown of stopSession; onclose performs the same teardown and leaves the
\* flag as it was.
C8_ErrorFlagsCloseDoesNot ==
  [][/\ (\E k \in Starts : OnError(k)) =>
          (isServiceUnavailable' /\ TornDown' /\ ContextsReleased)
     /\ (\E k \in Starts : OnClose(k)) =>
          (isServiceUnavailable' = isServiceUnavailable /\ TornDown' /\ ContextsReleased)]_vars

\* the provider closed an opened session whose contexts were in use: the
\* component is torn down and the flag is not set
C8_Witness ==
  /\ ~isServiceUnavailable
  /\ TornDown
  /\ remote[1] = "closed"
  /\ proc[1] = "disconnected"
  /\ outputCtx[1] = "closed"
  /\ submitted = <<>>
  /\ \A k \in Starts \ {1} : pc[k] = "unused"

\* ------------------------------------------------------------------ C9
\* C9: when startSession fails before the session opens (microphone denied or
\* connect rejected), Connecting is cleared, the flag is set, and the audio
\* contexts of that invocation are closed and no longer referenced.
C9_FailedStartTearsDown ==
  [][\A k \in Starts : (MicDenied(k) \/ ConnectRejected(k)) =>
       /\ ~isConnecting'
       /\ isServiceUnavailable'
       /\ inputCtx'[k] = "closed"
       /\ outputCtx'[k] = "closed"
       /\ audioContextsRef'.input # k
       /\ audioContextsRef'.output # k]_vars

\* ------------------------------------------------------------------ C10
\* C10: while the service-unavailable flag is set (no user action has started a
\* session since the failure), no connect is issued.
C10_NoConnectWhileUnavailable ==
  [][isServiceUnavailable => Connects' = Connects]_vars

\* ------------------------------------------------------ call specification
\* One call: the call button is pressed, the microphone is granted, the
\* session opens and its promise resolves; then the provider's messages arrive.
\* A message carries the parts of one family (transcript parts, audio parts, or
\* a tool call), or all parts at once.
TranscriptMsgs ==
  {m \in ServerMsgs :
     /\ m.audio.kind = "none" /\ ~m.interrupted /\ m.toolCall = <<>>
     /\ (m.inputTranscription \/ m.outputTranscription \/ m.turnComplete)}

AudioMsgs ==
  {m \in ServerMsgs :
     /\ ~m.inputTranscription /\ ~m.outputTranscription /\ ~m.turnComplete
     /\ m.toolCall = <<>>
     /\ (m.audio.kind # "none" \/ m.interrupted)}

ToolMsgs ==
  {m \in ServerMsgs :
     /\ m.audio.kind = "none" /\ ~m.interrupted
     /\ ~m.inputTranscription /\ ~m.outputTranscription /\ ~m.turnComplete
     /\ m.toolCall # <<>>}

\* and messages that carry every other part next to an absent or malformed
\* audio part
MixedMsgs ==
  {m \in ServerMsgs :
     /\ m.audio.kind \in {"none", "bad"}
     /\ m.inputTranscription /\ m.outputTranscription /\ m.turnComplete
     /\ m.interrupted /\ m.toolCall = <<"record_lead">>}

CallMsgs == TranscriptMsgs \cup AudioMsgs \cup ToolMsgs \cup MixedMsgs

\* the call button pressed while no call is up
PlaceCall == ~isActive /\ CallToggle

\* onmessage of the call for a message among CallMsgs
InboundCall ==
  \E k \in Starts : \E msg \in CallMsgs :
    /\ nmsgs < MaxMsgs
    /\ \E now \in ClockReadings(k) : \E decoded \in DecodeOutcomes(k, msg) :
         OnMessage(k, msg, now, decoded)

NextCall ==
  \/ PlaceCall
  \/ \E k \in Starts : MicGranted(k)
  \/ \E k \in Starts : OnOpen(k)
  \/ \E k \in Starts : SessionResolved(k)
  \/ InboundCall

SpecCall == Init /\ [][NextCall]_vars

\* ------------------------------------------------------------------ C11
\* the lines of a transcript whose text holds the fragment f
LinesWith(lines, f) ==
  {i \in 1..Len(lines) : \E p \in 1..Len(lines[i].text) : lines[i].text[p] = f}

\* buf, the fragments of one role since the last turnComplete, is shown after
\* the step as one line holding exactly buf; and when buf is the first fragment
\* of its turn (and the message has no fragment of the other role) that line is
\* appended and the lines shown before are kept
FragmentMerged(role, buf, before, after, alone) ==
  /\ \E i \in 1..Len(after) :
       /\ after[i] = [role |-> role, text |-> buf]
       /\ \A p \in 1..Len(buf) : LinesWith(after, buf[p]) = {i}
  /\ (Len(buf) = 1 /\ alone) => after = Append(before, [role |-> role, text |-> buf])

\* (the reading now of an onmessage step is the one the step leaves in clock)
\* C11: the fragments of one role within a turn are shown as one line whose
\* text is their concatenation, and the first fragment of a role after
\* turnComplete starts a new line that leaves the earlier lines as they were.
C11_OneLinePerTurn ==
  [][\A k \in Starts : \A msg \in TranscriptMsgs : \A now \in {clock'[k]} : \A decoded \in BOOLEAN :
       OnMessage(k, msg, now, decoded) =>
         /\ msg.inputTranscription =>
              FragmentMerged("User", Append(currentInputTransRef, <<"in", nmsgs + 1>>),
                             transcripts, transcripts', ~msg.outputTranscription)
         /\ msg.outputTranscription =>
              FragmentMerged("Joe", Append(currentOutputTransRef, <<"out", nmsgs + 1>>),
                             transcripts, transcripts', ~msg.inputTranscription)]_vars

\* ------------------------------------------------------------------ C12
\* the chunks of session k that are scheduled and not interrupted: in the call
\* specification the handles of sourcesRef are the chunks enqueued since the
\* last interruption
Playing(k) == {h \in sourcesRef : scheduled[h].ses = k}

RECURSIVE TotalDur(_)
TotalDur(H) ==
  IF H = {} THEN 0
  ELSE LET h == CHOOSE x \in H : TRUE IN scheduled[h].dur + TotalDur(H \ {h})

\* from the earliest start to the latest end of the chunks H
Span(H) ==
  LET first == CHOOSE h \in H : \A g \in H : scheduled[h].at <= scheduled[g].at
      last == CHOOSE h \in H : \A g \in H :
                scheduled[h].at + scheduled[h].dur >= scheduled[g].at + scheduled[g].dur
  IN scheduled[last].at + scheduled[last].dur - scheduled[first].at

\* C12: of the chunks enqueued in one session, a later one starts no earlier
\* than an earlier one's start plus its duration (so starts do not decrease in
\* arrival order), and the scheduled span is at least the sum of the durations.
C12_NoOverlappingPlayback ==
  \A k \in Starts :
    /\ \A h1, h2 \in Playing(k) :
         h1 < h2 => scheduled[h2].at >= scheduled[h1].at + scheduled[h1].dur
    /\ Playing(k) # {} => Span(Playing(k)) >= TotalDur(Playing(k))

\* three chunks were enqueued back to back, the later ones ahead of the clock
C12_Witness ==
  /\ Cardinality(Playing(1)) = 3
  /\ scheduled[3].at > clock[1]
  /\ nextStartTimeRef = scheduled[3].at + scheduled[3].dur

\* ------------------------------------------------------------------ C13
\* C13: an interrupted message leaves no active handle and nextStartTime 0, and
\* a chunk enqueued while no handle is active (the first after an interruption)
\* starts at the reading of the output clock.
C13_InterruptRestartsAtNow ==
  [][\A k \in Starts : \A msg \in AudioMsgs : \A now \in {clock'[k]} : \A decoded \in BOOLEAN :
       OnMessage(k, msg, now, decoded) =>
         /\ msg.interrupted => (sourcesRef' = {} /\ nextStartTimeRef' = 0)
         /\ (msg.audio.kind = "pcm" /\ decoded /\ sourcesRef = {}) =>
              scheduled' = Append(scheduled, [ses |-> k, at |-> now, dur |-> msg.audio.dur])]_vars

\* a chunk was interrupted and the next one started at the clock's reading,
\* before the end the first one was scheduled to have
C13_Witness ==
  /\ Len(scheduled) = 2
  /\ sourcesRef = {2}
  /\ scheduled[2].at = clock[1]
  /\ scheduled[2].at < scheduled[1].at + scheduled[1].dur

\* ------------------------------------------------------------------ C14
\* the acknowledgements among the payloads a session received
Acks(seq) == {i \in 1..Len(seq) : seq[i].kind = "toolResponse"}

\* C14: no tool call is acknowledged twice, and onmessage while Active sends,
\* for each function call of the message in order, one acknowledgement with the
\* call's identifier and name and the response {result: 'ok'}, and nothing else.
C14_EachToolCallAckedOnce ==
  /\ [](\A k \in Starts : \A i, j \in Acks(delivered[k]) :
          i # j => delivered[k][i].id # delivered[k][j].id)
  /\ [][\A k \in Starts : \A msg \in ToolMsgs : \A now \in {clock'[k]} : \A decoded \in BOOLEAN :
          (isActive /\ OnMessage(k, msg, now, decoded)) =>
            /\ Len(delivered'[k]) = Len(delivered[k]) + Len(msg.toolCall)
            /\ SubSeq(delivered'[k], 1, Len(delivered[k])) = delivered[k]
            /\ \A j \in 1..Len(msg.toolCall) :
                 delivered'[k][Len(delivered[k]) + j] =
                   [kind |-> "toolResponse", text |-> Null, id |-> <<nmsgs + 1, j>>,
                    name |-> msg.toolCall[j], result |-> "ok"]]_vars

\* a message with two function calls was acknowledged call by call
C14_Witness ==
  /\ isActive
  /\ Len(delivered[1]) = 2
  /\ delivered[1][1].id = <<1, 1>> /\ delivered[1][1].name = "record_lead"
  /\ delivered[1][2].id = <<1, 2>> /\ delivered[1][2].name = "schedule_repair"

\* ------------------------------------------------------------------ C15
\* C15: a message whose only function call has an unknown name is acknowledged
\* with that name, leaves lastAction as it was and leaves the session open and
\* the component Active.
C15_UnknownToolIsNoOp ==
  [][\A k \in Starts : \A msg \in ToolMsgs : \A now \in {clock'[k]} : \A decoded \in BOOLEAN :
       (isActive /\ msg.toolCall = <<"other">> /\ OnMessage(k, msg, now, decoded)) =>
         /\ delivered'[k] = Append(delivered[k],
              [kind |-> "toolResponse", text |-> Null, id |-> <<nmsgs + 1, 1>>,
               name |-> "other", result |-> "ok"])
         /\ lastAction' = lastAction
         /\ isActive' /\ ~isServiceUnavailable'
         /\ remote'[k] = "open"]_vars

\* a lead was recorded, then an unknown tool was called and acknowledged: the
\* recorded action is still the lead
C15_Witness ==
  /\ isActive
  /\ lastAction = <<"Lead recorded", 1, 1>>
  /\ Len(delivered[1]) = 2
  /\ delivered[1][2] = [kind |-> "toolResponse", text |-> Null, id |-> <<2, 1>>,
                        name |-> "other", result |-> "ok"]

\* ------------------------------------------------------------- PCM helpers
\* data[i] * 32768 and / 32768.0
Scale == 32768
\* the values of an Int16Array element
Int16Range == 65536

\* a sample x is the integer x * Scale * SubSteps; 1.0 is
One == Scale * SubSteps

\* the samples looked at: those of [-1, 1] near -1, near 0 and near 1
Samples ==
  ((-One)..(SampleWindow - One)) \cup ((-SampleWindow)..SampleWindow)
    \cup ((One - SampleWindow)..One)

\* storing a number into an Int16Array element: the fraction is dropped
\* (towards zero), then the integer is taken modulo 2^16 into -32768..32767
Truncate(n, d) == IF n >= 0 THEN n \div d ELSE -((-n) \div d)
ToInt16(v) == ((v + Int16Range \div 2) % Int16Range) - Int16Range \div 2

\* new Uint8Array(int16.buffer): the two bytes of an Int16, low byte first
Bytes(v) == <<(v % Int16Range) % 256, (v % Int16Range) \div 256>>

\* new Int16Array(data.buffer): the Int16 of two bytes
FromBytes(b) ==
  LET u == b[1] + 256 * b[2] IN IF u >= Int16Range \div 2 THEN u - Int16Range ELSE u

\* encode (btoa) of two bytes: three base64 digits (and one '=')
Encode64(b) == <<b[1] \div 4, (b[1] % 4) * 16 + b[2] \div 16, (b[2] % 16) * 4>>

\* decode (atob) of three base64 digits: two bytes
Decode64(c) == <<c[1] * 4 + c[2] \div 16, (c[2] % 16) * 16 + c[3] \div 4>>

\* createBlob of a frame holding the sample x: int16[i] = data[i] * 32768,
\* then the base64 of the bytes
CreateBlob(x) == Encode64(Bytes(ToInt16(Truncate(x, SubSteps))))

\* decodeAudioData(decode(base64)): channelData[i] = dataInt16[i] / 32768.0
DecodeAudioData(c) == FromBytes(Decode64(c)) * SubSteps

\* the capture side encodes the sample
EncodeSample ==
  /\ wire = NoSample
  /\ wire' = CreateBlob(sample)
  /\ UNCHANGED <<reactVars, refVars, envVars, sample, heard, frames>>

\* the playback side decodes what was encoded
DecodeSample ==
  /\ wire # NoSample
  /\ heard = NoSample
  /\ heard' = <<DecodeAudioData(wire)>>
  /\ UNCHANGED <<reactVars, refVars, envVars, sample, wire, frames>>

InitCodec == InitComponent /\ sample \in Samples

NextCodec == EncodeSample \/ DecodeSample

SpecCodec == InitCodec /\ [][NextCodec]_vars

\* ------------------------------------------------------------------ C16
\* stopSession has run on the component while invocation k was its current
\* one: it closed the output context k's closure holds
Stopped(k) == outputCtx[k] = "closed"

\* C16: once stopSession has run for a session of the mounted component (a
\* session whose promise has resolved, so that no then-callback is left
\* waiting), nothing more is sent to that session.
C16_NoSendAfterStop ==
  [][\A k \in Starts :
       (mounted /\ Stopped(k) /\ resolved[k]) => delivered'[k] = delivered[k]]_vars

\* ------------------------------------------------------------------ C17
\* C17: while the mounted component is neither Active nor Connecting, no
\* playback handle is active.
C17_NoHandlesWhenIdle == (mounted /\ Idle) => sourcesRef = {}

\* ------------------------------------------------------------------ C18
\* C18: when the component is Active on a session whose promise has resolved,
\* every typed message that was accepted while Idle or Connecting and left for
\* that session has reached it.
C18_TextNeverDropped ==
  \A i \in 1..Len(submitted) : \A k \in Starts :
    (/\ submitted[i].state \in {"Idle", "Connecting"}
     /\ submitted[i].start = k
     /\ mounted /\ isActive /\ scriptProcessorRef = k
     /\ remote[k] = "open" /\ resolved[k])
      => CountText(delivered[k], i) >= 1

\* ------------------------------------------------------------------ C19
\* C19: a sample of [-1, 1] that went through createBlob and decodeAudioData
\* comes back within 1/32768 (SubSteps steps) of itself.
C19_RoundTripWithinQuantum ==
  heard # NoSample =>
    (heard[1] - sample <= SubSteps /\ sample - heard[1] <= SubSteps)

\* ------------------------------------------------------------------ C20
\* C20: when stopSession has run while session k was Connecting (and the
\* component is still mounted), the onopen of session k does not make the
\* component Active, wires no capture pipeline and schedules no text flush.
C20_ClosedSessionStaysClosed ==
  [][\A k \in Starts :
       (mounted /\ Stopped(k) /\ OnOpen(k)) =>
         /\ ~isActive'
         /\ scriptProcessorRef' = scriptProcessorRef
         /\ proc' = proc
         /\ flushScheduled' = flushScheduled]_vars

\* --------------------------------------------------- capture specification
\* a frame callback whose failed send also unwires the capture pipeline
SendFailedUnwires(k) ==
  /\ proc' = [proc EXCEPT ![k] = "disconnected"]
  /\ scriptProcessorRef' = Null
  /\ UNCHANGED <<delivered, reactVars>>

\* the catch of the frame callback, lines 196-199: the error is logged and
\* nothing else happens
SendFailed(k) == UNCHANGED <<delivered, proc, scriptProcessorRef, reactVars>>

\* whether the send of a frame to session k can fail: a send on a session that
\* is not open throws, a send on an open one may (fails = TRUE) or may not
SendOutcomes(k) == IF remote[k] = "open" THEN BOOLEAN ELSE {TRUE}

\* onaudioprocess of the script processor of invocation k: the frame is
\* encoded and sent in a then-callback of the session promise. The node
\* delivers frames while it is connected and its context runs; the first frame
\* is full only after the promise has resolved.
AudioProcess(k, fails) ==
  /\ proc[k] = "connected"
  /\ inputCtx[k] = "running"
  /\ resolved[k]
  /\ Len(frames[k]) < MaxFrames
  /\ frames' = [frames EXCEPT ![k] = Append(@, IF fails THEN "failed" ELSE "sent")]
  /\ IF fails
     THEN SendFailed(k)
     ELSE /\ delivered' = [delivered EXCEPT ![k] = Append(@, MediaPayload(Len(frames[k]) + 1))]
          /\ UNCHANGED <<proc, scriptProcessorRef, reactVars>>
  /\ UNCHANGED <<nextStartTimeRef, audioContextsRef, sourcesRef, sessionRef,
                 pendingMessageRef, currentInputTransRef, currentOutputTransRef,
                 mounted, pc, inputCtx, outputCtx, clock, flushScheduled, remote,
                 resolved, scheduled, submitted, nmsgs, sample, wire, heard>>

Capture == \E k \in Starts : \E fails \in SendOutcomes(k) : AudioProcess(k, fails)

\* calls are placed and ended, sessions open, fail and close, and the
\* microphone delivers frames
NextCapture ==
  \/ CallToggle
  \/ LifecycleStep
  \/ Capture

SpecCapture == Init /\ [][NextCapture]_vars

\* ------------------------------------------------------------------ C21
\* the media payloads session k received
MediaSent(k) == {delivered[k][i].id[1] : i \in {j \in 1..Len(delivered[k]) : delivered[k][j].kind = "media"}}

\* C21: a frame whose send fails leaves the capture pipeline wired and the
\* lifecycle flags as they were (Active, unavailable flag unset), and every
\* frame whose send did not fail reached the session, whatever failed before it.
C21_SendFailureKeepsCapture ==
  /\ [](\A k \in Starts : \A j \in 1..Len(frames[k]) :
          frames[k][j] = "sent" <=> j \in MediaSent(k))
  /\ [][\A k \in Starts : AudioProcess(k, TRUE) =>
          /\ proc'[k] = "connected"
          /\ scriptProcessorRef' = scriptProcessorRef
          /\ UNCHANGED <<isActive, isConnecting, isServiceUnavailable>>]_vars

\* the first frame's send failed and the second frame reached the session,
\* with the component Active and the flag unset
C21_Witness ==
  /\ frames[1] = <<"failed", "sent">>
  /\ MediaSent(1) = {2}
  /\ isActive /\ ~isServiceUnavailable
  /\ scriptProcessorRef = 1 /\ proc[1] = "connected"

\* ------------------------------------------------------------------ C22
\* the inbound messages without a playable audio part
NoAudioMsgs == {m \in CallMsgs : m.audio.kind \in {"none", "bad"}}

\* C22: a message whose audio part is absent or fails to decode adds no
\* playback handle and leaves the component Active on its open session, and the
\* other parts of the same message are processed: the fragments are displayed,
\* turnComplete empties the buffers, interrupted empties the handles and resets
\* nextStartTime, and each function call is acted on and acknowledged.
C22_BadAudioDroppedOnly ==
  [][\A msg \in NoAudioMsgs : \A k \in {j \in Starts : remote[j] = "open"} :
     \A now \in {clock'[k]} : \A decoded \in DecodeOutcomes(k, msg) :
       (isActive /\ OnMessage(k, msg, now, decoded)) =>
         /\ scheduled' = scheduled
         /\ sourcesRef' \subseteq sourcesRef
         /\ isActive' /\ ~isConnecting' /\ isServiceUnavailable' = isServiceUnavailable
         /\ remote'[k] = "open"
         /\ msg.inputTranscription => LinesWith(transcripts', <<"in", nmsgs + 1>>) # {}
         /\ msg.outputTranscription => LinesWith(transcripts', <<"out", nmsgs + 1>>) # {}
         /\ msg.turnComplete => (currentInputTransRef' = <<>> /\ currentOutputTransRef' = <<>>)
         /\ msg.interrupted => (sourcesRef' = {} /\ nextStartTimeRef' = 0)
         /\ msg.toolCall = <<"record_lead">> =>
              /\ lastAction' = <<"Lead recorded", nmsgs + 1, 1>>
              /\ delivered'[k] = Append(delivered[k], ToolResponse(<<nmsgs + 1, 1>>, "record_lead"))]_vars

\* a chunk was playing when a message with malformed audio and every other
\* part arrived (the clock was read at 1 and nothing was scheduled for it): the
\* fragments are displayed, the handles are gone, the lead is recorded and
\* acknowledged
C22_Witness ==
  /\ isActive
  /\ nmsgs = 2
  /\ Len(scheduled) = 1
  /\ clock[1] > scheduled[1].at
  /\ sourcesRef = {}
  /\ Len(transcripts) = 2
  /\ lastAction = <<"Lead recorded", 2, 1>>
  /\ Len(delivered[1]) = 1

\* ------------------------------------------------- fair specification
\* the microphone request of invocation k resolves or rejects
MicResult(k) == MicGranted(k) \/ MicDenied(k)

\* the provider signals open, error, close or rejection for connect k
ConnectResult(k) == OnOpen(k) \/ OnError(k) \/ OnClose(k) \/ ConnectRejected(k)

\* the user's controls, the continuations of startSession and the provider's
\* lifecycle callbacks (no inbound messages: onmessage does not touch the flags)
NextFair == UserStep \/ LifecycleStep

\* the lifecycle in which every microphone request and every connect is
\* eventually answered
SpecFair ==
  /\ Init
  /\ [][NextFair]_vars
  /\ \A k \in Starts : WF_vars(MicResult(k))
  /\ \A k \in Starts : WF_vars(ConnectResult(k))

\* ------------------------------------------------------------------ C23
\* C23: whenever the component is Connecting, it eventually is not.
C23_ConnectingEnds == isConnecting ~> ~isConnecting

\* a connect was rejected and the component left Connecting for Unavailable
C23_Witness ==
  /\ ~isConnecting /\ ~isActive
  /\ isServiceUnavailable
  /\ pc[1] = "done"
  /\ remote[1] = "closed"
  /\ \A k \in Starts \ {1} : pc[k] = "unused"

\* ------------------------------------------------------------------ C24
\* session k has ended (stopSession ran for it, or it errored or closed) and a
\* later startSession has been issued
Superseded(k) ==
  /\ Stopped(k) \/ remote[k] \in {"errored", "closed"}
  /\ \E j \in Starts : j > k /\ pc[j] # "unused"

\* a callback of session k runs: onerror, onclose or onmessage
LateCallback(k) ==
  \/ OnError(k)
  \/ OnClose(k)
  \/ \E msg \in SessionMsgs : \E now \in {clock'[k]} : \E decoded \in BOOLEAN :
       OnMessage(k, msg, now, decoded)

\* C24: a callback of a superseded session leaves the audio contexts, the
\* capture pipeline, the Connecting/Active flags and the pending message as
\* they were, and removes no playback handle of a later session.
C24_LateCallbacksAreIgnored ==
  [][\A k \in Starts :
       (mounted /\ Superseded(k) /\ LateCallback(k)) =>
         /\ UNCHANGED <<inputCtx, outputCtx, audioContextsRef, proc, scriptProcessorRef,
                        isActive, isConnecting, pendingMessageRef>>
         /\ {h \in sourcesRef : scheduled[h].ses > k} \subseteq sourcesRef']_vars

\* ------------------------------------------------------ chat specification
\* A message is typed while no call is up, which starts the call; the session
\* opens and the provider's transcript messages arrive.
TypeFirst == ~isActive /\ ~isConnecting /\ SendText(FALSE)

InboundChat ==
  \E k \in Starts : \E msg \in TranscriptMsgs :
    /\ nmsgs < MaxMsgs
    /\ \E now \in ClockReadings(k) : \E decoded \in DecodeOutcomes(k, msg) :
         OnMessage(k, msg, now, decoded)

NextChat ==
  \/ TypeFirst
  \/ \E k \in Starts : MicGranted(k)
  \/ \E k \in Starts : OnOpen(k)
  \/ \E k \in Starts : SessionResolved(k)
  \/ InboundChat

SpecChat == Init /\ [][NextChat]_vars

\* ------------------------------------------------------------------ C25
\* C25: the line of every typed message handleSendText accepted is in the
\* displayed transcript, with the typed text.
C25_TypedLineStays ==
  \A m \in 1..Len(submitted) : \E i \in 1..Len(transcripts) : transcripts[i] = TypedLine(m)

====
